---------------------------- MODULE Spec2Model ----------------------------
(***************************************************************************)
(* Elliptic-curve arithmetic of src/secp256k1.py: the Point dataclass and  *)
(* its validation, mod_inverse, point_add and point_multiply.              *)
(*                                                                         *)
(* Python integers are unbounded and the field prime of secp256k1 has 256  *)
(* bits; TLC's integers have 32.  The curve y^2 = x^3 + 7 is therefore     *)
(* taken over the small field F_97 that the repository itself uses for the *)
(* same curve (plot_curve_over_small_field and count_curve_points, both    *)
(* with p = 97, a = 0, b = 7).  Over F_97 the curve has 79 points, a prime *)
(* number, as the order N of secp256k1 is: no point has y = 0 and every    *)
(* finite point generates the whole group.                                 *)
(*                                                                         *)
(* An Optional[int] is a sequence: <<>> is None and <<v>> is the int v.    *)
(* A call that may raise yields an outcome [exc, val]: exc is "none" and   *)
(* val the returned value, or exc names the exception raised.              *)
(***************************************************************************)
EXTENDS Integers, Sequences, FiniteSets

\* ------------------------------------------------------------ constants

\* The field prime (secp256k1.py line 14), scaled to the repository's small field.
P == 97
\* Coefficient a in y^2 = x^3 + ax + b.
A == 0
\* Coefficient b in y^2 = x^3 + ax + b.
B == 7

\* ---------------------------------------------------------------- bounds

\* Explicit coordinates handed to Point(x, y) range over -CoordSlack .. P-1+CoordSlack.
CoordSlack == 3
\* mod_inverse(a, m) is called with a in -MaxA .. MaxA.
MaxA == 40
\* mod_inverse(a, m) is called with m in 2 .. MaxM, and with m = P.
MaxM == 12
\* point_multiply(k, point) is called with k in -MaxNeg .. MaxK.
MaxK == 81
MaxNeg == 3

\* ------------------------------------------------------- Optional[int]

None == <<>>
Some(v) == <<v>>
Val(o) == o[1]

\* ------------------------------------------------------------ outcomes

Ok(v) == [exc |-> "none", val |-> v]
Raise(e) == [exc |-> e, val |-> None]

\* ------------------------------------------------------------ class Point

is_infinity(self) == self.x = None /\ self.y = None

\* is_on_curve with the right-hand side left unreduced.
is_on_curve_unreduced(self) ==
    IF is_infinity(self) THEN TRUE
    ELSE LET left == (Val(self.y) * Val(self.y)) % P
             right == Val(self.x) * Val(self.x) * Val(self.x) + B
         IN left = right

is_on_curve(self) ==
    IF is_infinity(self) THEN TRUE
    ELSE LET left == (Val(self.y) * Val(self.y)) % P
             right == (Val(self.x) * Val(self.x) * Val(self.x) + B) % P
         IN left = right

\* Point(x, y): the dataclass constructor followed by __post_init__.  A Point with
\* exactly one coordinate absent fails the assertion of is_on_curve.
Point(x, y) ==
    LET self == [x |-> x, y |-> y]
    IN IF is_infinity(self) THEN Ok(self)
       ELSE IF x = None \/ y = None THEN Raise("AssertionError")
       ELSE IF ~is_on_curve(self) THEN Raise("ValueError")
       ELSE Ok(self)

\* Point(): both coordinates default to None.
Infinity == [x |-> None, y |-> None]

\* ------------------------------------------------------------ mod_inverse

RECURSIVE euclid_loop(_, _, _, _)
euclid_loop(old_r, r, old_s, s) ==
    IF r = 0 THEN old_s
    ELSE LET quotient == old_r \div r
         IN euclid_loop(r, old_r - quotient * r, s, old_s - quotient * s)

mod_inverse_unreduced(a, m) ==
    LET a1 == IF a < 0 THEN ((a % m) + m) % m ELSE a
    IN euclid_loop(a1, m, 1, 0)

mod_inverse(a, m) ==
    LET a1 == IF a < 0 THEN ((a % m) + m) % m ELSE a
    IN euclid_loop(a1, m, 1, 0) % m

\* -------------------------------------------------------------- point_add

\* A doubling slope with the factor 3 of the tangent mistaken for 2.
double_slope_two(p1) ==
    (2 * Val(p1.x) * Val(p1.x) * mod_inverse(2 * Val(p1.y), P)) % P

\* The slope of the doubling branch (p1 == p2).
double_slope(p1) ==
    (3 * Val(p1.x) * Val(p1.x) * mod_inverse(2 * Val(p1.y), P)) % P

\* The slope of the branch for points of different x.
chord_slope(p1, p2) ==
    ((Val(p2.y) - Val(p1.y)) * mod_inverse(Val(p2.x) - Val(p1.x), P)) % P

\* "Calculate new point": x3, y3 and the validating constructor.
new_point(s, p1, p2) ==
    LET x3 == (s * s - Val(p1.x) - Val(p2.x)) % P
        y3 == (s * (Val(p1.x) - x3) - Val(p1.y)) % P
    IN Point(Some(x3), Some(y3))

\* point_add without the branch for P + (-P): equal x always doubles p1.
point_add_no_negation(p1, p2) ==
    IF is_infinity(p1) THEN Point(p2.x, p2.y)
    ELSE IF is_infinity(p2) THEN Point(p1.x, p1.y)
    ELSE IF p1.x = p2.x
         THEN new_point(double_slope(p1), p1, p2)
         ELSE new_point(chord_slope(p1, p2), p1, p2)

\* point_add with the second infinity test returning a copy of p2, not of p1.
point_add_copied_branch(p1, p2) ==
    IF is_infinity(p1) THEN Point(p2.x, p2.y)
    ELSE IF is_infinity(p2) THEN Point(p2.x, p2.y)
    ELSE IF p1.x = p2.x
         THEN IF p1.y = p2.y
              THEN new_point(double_slope(p1), p1, p2)
              ELSE Point(None, None)
         ELSE new_point(chord_slope(p1, p2), p1, p2)

point_add(p1, p2) ==
    IF is_infinity(p1) THEN Point(p2.x, p2.y)
    ELSE IF is_infinity(p2) THEN Point(p1.x, p1.y)
    ELSE IF p1.x = p2.x
         THEN IF p1.y = p2.y
              THEN new_point(double_slope(p1), p1, p2)
              ELSE Point(None, None)
         ELSE new_point(chord_slope(p1, p2), p1, p2)

\* ------------------------------------------------------ small-field census

\* count_curve_points(p, a, b)[0]: every (x, y) of [0, p) x [0, p) on the curve.
count_curve_points(p, a, b) ==
    { xy \in (0 .. p - 1) \X (0 .. p - 1) :
        (xy[2] * xy[2]) % p = (xy[1] * xy[1] * xy[1] + a * xy[1] + b) % p }

\* -------------------------------------------------------- point_multiply

\* k & 1 on a Python int of either sign.
low_bit(k) == k % 2

\* A shift that truncates toward zero, as a division of C does.
rshift1_truncating(k) == IF k < 0 THEN 0 - ((0 - k) \div 2) ELSE k \div 2

\* k >> 1 on a Python int: an arithmetic shift, the floor of k / 2.
rshift1(k) == k \div 2

\* A body that doubles the addend before it adds it into the result.
loop_body_double_first(k, result, addend) ==
    LET r2 == point_add(addend, addend)
        r1 == IF r2.exc = "none" /\ low_bit(k) = 1
              THEN point_add(result, r2.val) ELSE Ok(result)
    IN IF r2.exc # "none" THEN [exc |-> r2.exc, k |-> k, result |-> result, addend |-> addend]
       ELSE IF r1.exc # "none" THEN [exc |-> r1.exc, k |-> k, result |-> result, addend |-> r2.val]
       ELSE [exc |-> "none", k |-> rshift1(k), result |-> r1.val, addend |-> r2.val]

\* One pass of the body of `while k:`.  The locals after it, or the exception that
\* result + addend or addend + addend raised.
loop_body(k, result, addend) ==
    LET r1 == IF low_bit(k) = 1 THEN point_add(result, addend) ELSE Ok(result)
        r2 == point_add(addend, addend)
    IN IF r1.exc # "none" THEN [exc |-> r1.exc, k |-> k, result |-> result, addend |-> addend]
       ELSE IF r2.exc # "none" THEN [exc |-> r2.exc, k |-> k, result |-> r1.val, addend |-> addend]
       ELSE [exc |-> "none", k |-> rshift1(k), result |-> r1.val, addend |-> r2.val]

\* ------------------------------------------------------------------ state

VARIABLES
    fn,       \* the function called: "none", "Point", "mod_inverse", "point_add", "point_multiply"
    pc,       \* "idle", "loop" (inside `while k:`), "returned", "raised"
    exc,      \* the exception raised, "none" if none
    ret,      \* the value returned, None before the return
    x, y,     \* Point(x, y): the coordinates given
    a, m,     \* mod_inverse(a, m): the arguments
    p1, p2,   \* point_add(p1, p2): the operands
    k0, point,            \* point_multiply(k, point): the arguments
    k, result, addend     \* point_multiply: the locals of the loop

vars == <<fn, pc, exc, ret, x, y, a, m, p1, p2, k0, point, k, result, addend>>

\* The inputs of the calls.
Coords == (0 - CoordSlack) .. (P - 1 + CoordSlack)
OptCoords == {None} \cup {Some(c) : c \in Coords}
Moduli == (2 .. MaxM) \cup {P}
Scalars == (0 - MaxNeg) .. MaxK

\* Every Point a caller can hold: what Point(x, y) constructs from the coordinates.
AllPoints ==
    { Point(cx, cy).val : cx \in OptCoords, cy \in OptCoords } \ {None}

Init ==
    /\ fn = "none" /\ pc = "idle" /\ exc = "none" /\ ret = None
    /\ x = None /\ y = None
    /\ a = 0 /\ m = 2
    /\ p1 = Infinity /\ p2 = Infinity
    /\ k0 = 0 /\ point = Infinity
    /\ k = 0 /\ result = Infinity /\ addend = Infinity

\* The end of a call that is a single expression: it returned out.val or raised out.exc.
Finish(out) ==
    /\ exc' = out.exc
    /\ ret' = out.val
    /\ pc' = IF out.exc = "none" THEN "returned" ELSE "raised"

\* Point(x, y), Point() and a Point with one coordinate absent.
CallPoint ==
    /\ pc = "idle"
    /\ \E cx \in OptCoords, cy \in OptCoords :
          /\ fn' = "Point" /\ x' = cx /\ y' = cy
          /\ Finish(Point(cx, cy))
    /\ UNCHANGED <<a, m, p1, p2, k0, point, k, result, addend>>

CallModInverse ==
    /\ pc = "idle"
    /\ \E a0 \in (0 - MaxA) .. MaxA, m0 \in Moduli :
          /\ fn' = "mod_inverse" /\ a' = a0 /\ m' = m0
          /\ Finish(Ok(mod_inverse(a0, m0)))
    /\ UNCHANGED <<x, y, p1, p2, k0, point, k, result, addend>>

CallPointAdd ==
    /\ pc = "idle"
    /\ \E q1 \in AllPoints, q2 \in AllPoints :
          /\ fn' = "point_add" /\ p1' = q1 /\ p2' = q2
          /\ Finish(point_add(q1, q2))
    /\ UNCHANGED <<x, y, a, m, k0, point, k, result, addend>>

\* point_multiply up to the loop: the two early returns, then result and addend.
CallPointMultiply ==
    /\ pc = "idle"
    /\ \E kk \in Scalars, pt \in AllPoints :
          /\ fn' = "point_multiply" /\ k0' = kk /\ point' = pt /\ k' = kk
          /\ IF kk = 0
             THEN Finish(Point(None, None)) /\ UNCHANGED <<result, addend>>
             ELSE IF kk = 1
             THEN Finish(Point(pt.x, pt.y)) /\ UNCHANGED <<result, addend>>
             ELSE /\ result' = Point(None, None).val
                  /\ addend' = Point(pt.x, pt.y).val
                  /\ pc' = "loop"
                  /\ UNCHANGED <<exc, ret>>
    /\ UNCHANGED <<x, y, a, m, p1, p2>>

\* `while k:` with k nonzero: one pass of the body.
LoopBody ==
    /\ pc = "loop" /\ k # 0
    /\ LET n == loop_body(k, result, addend)
       IN /\ k' = n.k /\ result' = n.result /\ addend' = n.addend
          /\ exc' = n.exc
          /\ pc' = IF n.exc = "none" THEN "loop" ELSE "raised"
    /\ UNCHANGED <<fn, ret, x, y, a, m, p1, p2, k0, point>>

\* `while k:` with k zero: return result.
LoopExit ==
    /\ pc = "loop" /\ k = 0
    /\ ret' = result /\ pc' = "returned"
    /\ UNCHANGED <<fn, exc, x, y, a, m, p1, p2, k0, point, k, result, addend>>

PointNext == CallPoint
FieldNext == CallModInverse
AddNext == CallPointAdd
MulNext == CallPointMultiply \/ LoopBody \/ LoopExit

\* One specification per function of the core.
PointSpec == Init /\ [][PointNext]_vars
FieldSpec == Init /\ [][FieldNext]_vars
AddSpec == Init /\ [][AddNext]_vars
MulSpec == Init /\ [][MulNext]_vars

\* ----------------------------------------------------------- properties

\* The greatest common divisor of |v| and w, for w > 0.
Gcd(v, w) ==
    LET n == IF v < 0 THEN 0 - v ELSE v
    IN CHOOSE d \in 1 .. w :
          /\ n % d = 0 /\ w % d = 0
          /\ \A e \in 1 .. w : (n % e = 0 /\ w % e = 0) => e <= d

\* A valid Point of the data model: the identity, or a pair of field elements of
\* [0, P) that satisfies the curve equation.
IsValidPoint(pt) ==
    \/ pt.x = None /\ pt.y = None
    \/ /\ pt.x # None /\ pt.y # None
       /\ Val(pt.x) \in 0 .. P - 1 /\ Val(pt.y) \in 0 .. P - 1
       /\ (Val(pt.y) * Val(pt.y) - Val(pt.x) * Val(pt.x) * Val(pt.x) - 7) % P = 0

\* The valid Points: the identity and the census of the small field.
CurvePoints ==
    {Infinity} \cup
    { [x |-> Some(xy[1]), y |-> Some(xy[2])] : xy \in count_curve_points(P, A, B) }

\* C1: for every modulus m > 1 and every a coprime to m (negative, in [0, m) or
\* >= m), mod_inverse(a, m) returns b with 0 <= b < m and a*b = 1 (mod m).
C1_ModInverse ==
    (fn = "mod_inverse" /\ m > 1 /\ Gcd(a, m) = 1) =>
        /\ pc = "returned" /\ exc = "none"
        /\ ret \in 0 .. m - 1
        /\ (a * ret) % m = 1

\* A negative a and an a >= m are both inverted: here a negative one, modulo P.
C1_Witness ==
    /\ fn = "mod_inverse" /\ pc = "returned" /\ m = P /\ a = 0 - 7
    /\ (a * ret) % m = 1

\* C2: Point(x, y) with integer coordinates succeeds exactly when y^2 = x^3 + 7
\* (mod P), and the Point made reports is_on_curve(); otherwise it raises the
\* not-on-curve error (ValueError) and no Point is produced.  Point() always
\* succeeds, with is_infinity() and is_on_curve() both true.
C2_Construction ==
    (fn = "Point") =>
        /\ (x # None /\ y # None) =>
              LET congruent ==
                    (Val(y) * Val(y)) % P = (Val(x) * Val(x) * Val(x) + 7) % P
              IN /\ congruent =>
                       /\ pc = "returned" /\ exc = "none"
                       /\ ret = [x |-> x, y |-> y]
                       /\ is_on_curve(ret)
                 /\ ~congruent =>
                       /\ pc = "raised" /\ exc = "ValueError" /\ ret = None
        /\ (x = None /\ y = None) =>
              /\ pc = "returned" /\ exc = "none"
              /\ is_infinity(ret) /\ is_on_curve(ret)

\* Point(1, 1) is refused.
C2_Witness ==
    /\ fn = "Point" /\ x = Some(1) /\ y = Some(1)
    /\ pc = "raised" /\ exc = "ValueError"

\* y^2 = x^3 + 7 (mod P) for a finite Point.
Congruent(pt) ==
    (Val(pt.y) * Val(pt.y)) % P = (Val(pt.x) * Val(pt.x) * Val(pt.x) + 7) % P

IsFinite(pt) == pt.x # None /\ pt.y # None

\* point_add was called with two valid Points.
AddOfValid == fn = "point_add" /\ IsValidPoint(p1) /\ IsValidPoint(p2)

\* C3: point_add is total and closed over the valid Points: it returns a Point
\* without raising, mod_inverse is never applied to a value = 0 (mod P), and the
\* Point returned is infinity or satisfies y^2 = x^3 + 7 (mod P).
C3_AddTotal ==
    AddOfValid =>
        /\ pc = "returned" /\ exc = "none"
        /\ is_infinity(ret) \/ (IsFinite(ret) /\ Congruent(ret))
        /\ (IsFinite(p1) /\ IsFinite(p2)) =>
              /\ (p1.x = p2.x /\ p1.y = p2.y) => (2 * Val(p1.y)) % P # 0
              /\ (p1.x # p2.x) => (Val(p2.x) - Val(p1.x)) % P # 0

\* A doubling: P + P for a finite P.
C3_Witness ==
    /\ AddOfValid /\ IsFinite(p1) /\ p1 = p2
    /\ pc = "returned" /\ IsFinite(ret) /\ ret # p1

\* C4: point addition is associative over the valid Points (infinity, equal and
\* mutually negated points included): (P + Q) + R = P + (Q + R).
C4_Associative ==
    AddOfValid =>
        /\ pc = "returned"
        /\ \A r \in CurvePoints :
              LET left == point_add(ret, r)
                  qr == point_add(p2, r)
              IN /\ left.exc = "none" /\ qr.exc = "none"
                 /\ point_add(p1, qr.val) = left

\* P + Q for finite P, Q of different x, whose sum is finite.
C4_Witness ==
    /\ AddOfValid /\ IsFinite(p1) /\ IsFinite(p2) /\ p1.x # p2.x
    /\ pc = "returned" /\ IsFinite(ret)
    /\ point_add(ret, p2).exc = "none"

\* C5: point addition is commutative over the valid Points: P + Q and Q + P are
\* the same Point, structurally.
C5_Commutative ==
    AddOfValid =>
        /\ pc = "returned"
        /\ point_add(p2, p1) = Ok(ret)

\* A chord, whose x3 and y3 are written in terms of p1: both orders agree.
C5_Witness ==
    /\ AddOfValid /\ IsFinite(p1) /\ IsFinite(p2) /\ p1.x # p2.x
    /\ pc = "returned" /\ point_add(p2, p1).val = ret

\* negate((x, y)) = (x, (P - y) mod P), through the validating constructor.
Negate(pt) == Point(pt.x, Some((P - Val(pt.y)) % P))

\* C6: for every valid finite P, negate(P) is a valid on-curve Point and
\* point_add(P, negate(P)) is the point at infinity.
C6_Inverse ==
    (AddOfValid /\ IsFinite(p1)) =>
        /\ Negate(p1).exc = "none"
        /\ IsValidPoint(Negate(p1).val) /\ is_on_curve(Negate(p1).val)
        /\ (p2 = Negate(p1).val) =>
              pc = "returned" /\ exc = "none" /\ is_infinity(ret)

\* P + (-P) was computed for a finite P.
C6_Witness ==
    /\ AddOfValid /\ IsFinite(p1) /\ p2 = Negate(p1).val
    /\ pc = "returned" /\ ret = Infinity

\* C7: for every valid P (infinity included), point_add(P, infinity) = P and
\* point_add(infinity, P) = P.
C7_Identity ==
    AddOfValid =>
        /\ is_infinity(p2) => (pc = "returned" /\ exc = "none" /\ ret = p1)
        /\ is_infinity(p1) => (pc = "returned" /\ exc = "none" /\ ret = p2)

\* P + infinity for a finite P.
C7_Witness ==
    /\ AddOfValid /\ IsFinite(p1) /\ is_infinity(p2)
    /\ pc = "returned" /\ ret = p1

\* C9: every Point that exists is the infinity sentinel or a finite pair (x, y)
\* with 0 <= x < P, 0 <= y < P and y^2 = x^3 + 7 (mod P): the Point a call
\* returned, and the Points handed on to point_add and point_multiply.
C9_Representation ==
    /\ (pc = "returned" /\ fn \in {"Point", "point_add", "point_multiply"}) =>
          IsValidPoint(ret)
    /\ IsValidPoint(p1) /\ IsValidPoint(p2)
    /\ IsValidPoint(point) /\ IsValidPoint(result) /\ IsValidPoint(addend)

\* The reference n.P: P added n times to infinity with point_add (an outcome).
RECURSIVE RepeatedAdd(_, _)
RepeatedAdd(n, pt) ==
    IF n = 0 THEN Ok(Infinity)
    ELSE LET prev == RepeatedAdd(n - 1, pt)
         IN IF prev.exc # "none" THEN prev ELSE point_add(prev.val, pt)

\* point_multiply was called with a scalar k >= 0 and a valid Point.
MulOfValid == fn = "point_multiply" /\ k0 >= 0 /\ IsValidPoint(point)

\* What a call of MulOfValid returns.
C8_Result ==
    (MulOfValid /\ pc # "loop") =>
        /\ pc = "returned" /\ exc = "none"
        /\ Ok(ret) = RepeatedAdd(k0, point)
        /\ (k0 = 0) => ret = Infinity
        /\ (k0 = 1) => ret = point
        /\ (k0 = 2) => Ok(ret) = point_add(point, point)
        /\ is_infinity(ret) \/ (IsFinite(ret) /\ Congruent(ret))

\* Termination, by the variant k: inside the loop of a call of MulOfValid a step is
\* the exit at k = 0, which returns, or a pass of the body, which neither raises
\* nor leaves k where it was: 0 <= k' < k.
C8_Variant ==
    (MulOfValid /\ pc = "loop") =>
        \/ k = 0 /\ pc' = "returned"
        \/ k > 0 /\ pc' = "loop" /\ k' >= 0 /\ k' < k

\* C8: for every k >= 0 and every valid P (infinity included), point_multiply(k, P)
\* terminates and returns the reference k.P, P added k times to infinity with
\* point_add: infinity for k = 0, P for k = 1, P + P for k = 2, and always
\* infinity or a Point on the curve.
C8_Multiply ==
    /\ [](C8_Result)
    /\ [][C8_Variant]_vars

\* A scalar beyond the order of the group: 80.P = P, through the loop.
C8_Witness ==
    /\ MulOfValid /\ pc = "returned" /\ k0 = 80 /\ k = 0
    /\ IsFinite(point) /\ ret = point

\* C10: point_multiply(k, P) with k < 0 never returns and never raises: k stays
\* negative (at -1 once it is there), the loop is never left, and every pass of its
\* body succeeds.
C10_NegativeScalar ==
    (fn = "point_multiply" /\ k0 < 0) =>
        /\ pc = "loop" /\ exc = "none"
        /\ k < 0 /\ k0 <= k
        /\ loop_body(k, result, addend).exc = "none"
        /\ loop_body(k, result, addend).k < 0
        /\ (k = 0 - 1) => loop_body(k, result, addend).k = 0 - 1

\* k0 = -3 has reached -1 and the loop is still adding.
C10_Witness ==
    /\ fn = "point_multiply" /\ k0 = 0 - 3 /\ k = 0 - 1 /\ pc = "loop"
    /\ IsFinite(result) /\ result # point /\ result # addend

=============================================================================
